---------------------------- MODULE Spec2Model ----------------------------
(***************************************************************************)
(* Model of src/app.py: the Streamlit shopping dashboard script.           *)
(*                                                                         *)
(* One script run is the sequence of top-level statements of app.py:       *)
(* load_data, rename, derive Returning_Customer, the sidebar widgets, the  *)
(* filter, the download button (to_csv), the KPI values, the season-wise   *)
(* group-by.  Streamlit runs the script again whenever a widget changes.   *)
(*                                                                         *)
(* A DataFrame is a record [columns, index, rows]; a cell is a record      *)
(* [t, s, n] with t the dtype of the value ("str", "int", "float", "bool", *)
(* "nan"), s its text when it is a string and n its number.  Numbers are   *)
(* kept in half dollars (n = 5 is 2.5) so that fractional amounts and      *)
(* int() truncation are exact.                                             *)
(***************************************************************************)
EXTENDS Integers, Sequences, FiniteSets, TLC

VARIABLES
    csv_files,          \* the .csv files os.listdir() finds (line 78)
    cache,              \* st.cache_data's stored result of load_data()
    pc,                 \* the statement the script run is at
    df,                 \* the table (lines 83-93)
    season_filter,      \* multiselect results (lines 102-120)
    category_filter,
    payment_filter,
    min_sales,          \* slider result, whole dollars (line 123)
    max_sales,
    filtered_df,        \* line 131
    download,           \* the text handed to download_button (line 144)
    total_customers,    \* line 151
    total_sales,        \* line 152, half dollars
    returning_customers,\* line 153
    returning_rate,     \* the value formatted at line 173
    monthly_sales       \* line 183

vars == <<csv_files, cache, pc, df, season_filter, category_filter,
          payment_filter, min_sales, max_sales, filtered_df, download,
          total_customers, total_sales, returning_customers, returning_rate,
          monthly_sales>>

---------------------------------------------------------------------------
(* Bounds *)

\* most data rows of a source file in the facet specification
MaxRows == 2

\* most data rows of a source file in the typing specification
MaxTypedRows == 3

---------------------------------------------------------------------------
(* Cells *)

NaN == [t |-> "nan", s |-> "", n |-> 0]

StrV(x) == [t |-> "str", s |-> x, n |-> 0]

IntV(k) == [t |-> "int", s |-> "", n |-> k]

FloatV(k) == [t |-> "float", s |-> "", n |-> k]

BoolV(b) == [t |-> "bool", s |-> "", n |-> IF b THEN 1 ELSE 0]

IsNaN(v) == v.t = "nan"

---------------------------------------------------------------------------
(* Text of numbers, as read_csv parses it and to_csv writes it *)

IntTokens == {"1", "2", "7", "30"}

FloatTokens == {"1.0", "2.0", "2.5", "7.0", "30.0"}

BoolTokens == {"True", "False"}

\* the number a numeric token denotes, in halves
TokNum(tok) ==
    CASE tok \in {"1", "1.0"} -> 2
      [] tok \in {"2", "2.0"} -> 4
      [] tok = "2.5" -> 5
      [] tok \in {"7", "7.0"} -> 14
      [] tok \in {"30", "30.0"} -> 60
      [] OTHER -> 0

\* str(int)
IntText(n) ==
    CASE n = 2 -> "1"
      [] n = 4 -> "2"
      [] n = 14 -> "7"
      [] n = 60 -> "30"
      [] OTHER -> "?"

\* repr(float)
FloatText(n) ==
    CASE n = 2 -> "1.0"
      [] n = 4 -> "2.0"
      [] n = 5 -> "2.5"
      [] n = 14 -> "7.0"
      [] n = 60 -> "30.0"
      [] OTHER -> "?"

\* int(x) of a float or int held in halves: truncation toward zero
IntOf(n) == IF n >= 0 THEN n \div 2 ELSE -((-n) \div 2)

---------------------------------------------------------------------------
(* DataFrames *)

NoDF == [columns |-> <<>>, index |-> <<>>, rows |-> <<>>]

NoFile == [header |-> <<>>, lines |-> <<>>]

ColIdx(d, name) == CHOOSE c \in 1..Len(d.columns) : d.columns[c] = name

\* d[name]: the column as a sequence of cells
Col(d, name) == [i \in 1..Len(d.rows) |-> d.rows[i][ColIdx(d, name)]]

SeqRange(s) == {s[i] : i \in 1..Len(s)}

\* d[name][i]
At(d, i, name) == d.rows[i][ColIdx(d, name)]

\* Series.unique(): the distinct values (NaN included)
Unique(d, name) == SeqRange(Col(d, name))

---------------------------------------------------------------------------
(* pd.read_csv: dtype inference per column *)

InferType(toks) ==
    LET all == 1..Len(toks)
        present == {i \in all : toks[i] # ""}
    IN  IF all = {} THEN "object"
        ELSE IF present = {} THEN "float"
        ELSE IF \A i \in present : toks[i] \in IntTokens
             THEN (IF present = all THEN "int" ELSE "float")
        ELSE IF \A i \in present : toks[i] \in IntTokens \cup FloatTokens
             THEN "float"
        ELSE IF \A i \in all : toks[i] \in BoolTokens THEN "bool"
        ELSE "object"

ParseCell(tok, type) ==
    IF tok = "" THEN NaN
    ELSE CASE type = "int" -> IntV(TokNum(tok))
           [] type = "float" -> FloatV(TokNum(tok))
           [] type = "bool" -> BoolV(tok = "True")
           [] OTHER -> StrV(tok)

ReadCsv(file) ==
    LET n == Len(file.lines)
        w == Len(file.header)
        type == [c \in 1..w |-> InferType([i \in 1..n |-> file.lines[i][c]])]
    IN  [columns |-> file.header,
         index |-> [i \in 1..n |-> i],
         rows |-> [i \in 1..n |->
                     [c \in 1..w |-> ParseCell(file.lines[i][c], type[c])]]]

\* str.strip() on a column name
StripName(name) ==
    CASE name = "Customer ID " -> "Customer ID"
      [] name = " Season" -> "Season"
      [] OTHER -> name

\* load_data(): IndexError when no .csv file is listed
LoadFails(files) == Len(files) = 0

LoadData(files) ==
    LET raw == ReadCsv(files[1])
    IN  [raw EXCEPT !.columns = [c \in 1..Len(raw.columns) |->
                                    StripName(raw.columns[c])]]

\* the rename mapping of lines 86-91
RenameColumn(name) ==
    CASE name = "Category" -> "Product_Category"
      [] name = "Payment Method" -> "Payment_Method"
      [] name = "Purchase Amount (USD)" -> "Sales"
      [] name = "Customer ID" -> "Customer_ID"
      [] OTHER -> name

Rename(d) ==
    [d EXCEPT !.columns = [c \in 1..Len(d.columns) |-> RenameColumn(d.columns[c])]]

---------------------------------------------------------------------------
(* df["Returning_Customer"] = df.duplicated("Customer_ID")  (line 93) *)

RECURSIVE DupScan(_, _, _, _)
DupScan(vals, i, seen, acc) ==
    IF i > Len(vals) THEN acc
    ELSE DupScan(vals, i + 1, seen \cup {vals[i]}, Append(acc, vals[i] \in seen))

\* a slip: keep=False marks every member of a repeated group
DuplicatedKeepNone(vals) ==
    [i \in 1..Len(vals) |-> \E j \in 1..Len(vals) : j # i /\ vals[j] = vals[i]]

\* DataFrame.duplicated, keep="first": NaN keys count as equal to each other
Duplicated(vals) == DupScan(vals, 1, {}, <<>>)

Derive(d) ==
    LET flags == Duplicated(Col(d, "Customer_ID"))
    IN  [columns |-> Append(d.columns, "Returning_Customer"),
         index |-> d.index,
         rows |-> [i \in 1..Len(d.rows) |-> Append(d.rows[i], BoolV(flags[i]))]]

---------------------------------------------------------------------------
(* Sidebar widgets (lines 101-128) *)

SetMin(S) == CHOOSE x \in S : \A y \in S : x <= y

SetMax(S) == CHOOSE x \in S : \A y \in S : x >= y

\* the Sales values Series.min()/max() look at: NaN is skipped
SalesNumbers(d) == {v.n : v \in {w \in Unique(d, "Sales") : ~IsNaN(w)}}

\* min() of no numbers is nan, and int(nan) raises ValueError
SliderFails(d) == SalesNumbers(d) = {}

SliderMin(d) == IntOf(SetMin(SalesNumbers(d)))

SliderMax(d) == IntOf(SetMax(SalesNumbers(d)))

---------------------------------------------------------------------------
(* Apply Filters (lines 131-137) *)

\* a slip: the upper end exclusive
PassesStrict(d, i, sf, cf, pf, lo, hi) ==
    /\ At(d, i, "Season") \in sf
    /\ At(d, i, "Product_Category") \in cf
    /\ At(d, i, "Payment_Method") \in pf
    /\ ~IsNaN(At(d, i, "Sales"))
    /\ At(d, i, "Sales").n >= lo * 2
    /\ At(d, i, "Sales").n < hi * 2

\* a slip: the upper end compared with >=
PassesUpperSlip(d, i, sf, cf, pf, lo, hi) ==
    /\ At(d, i, "Season") \in sf
    /\ At(d, i, "Product_Category") \in cf
    /\ At(d, i, "Payment_Method") \in pf
    /\ ~IsNaN(At(d, i, "Sales"))
    /\ At(d, i, "Sales").n >= lo * 2
    /\ At(d, i, "Sales").n >= hi * 2

\* the boolean mask of row i; a comparison with NaN is False
Passes(d, i, sf, cf, pf, lo, hi) ==
    /\ At(d, i, "Season") \in sf
    /\ At(d, i, "Product_Category") \in cf
    /\ At(d, i, "Payment_Method") \in pf
    /\ ~IsNaN(At(d, i, "Sales"))
    /\ At(d, i, "Sales").n >= lo * 2
    /\ At(d, i, "Sales").n <= hi * 2

\* positions of the rows the mask keeps, in order
Kept(d, sf, cf, pf, lo, hi) ==
    SelectSeq([i \in 1..Len(d.rows) |-> i],
              LAMBDA i : Passes(d, i, sf, cf, pf, lo, hi))

\* a slip: the flag derived again on the filtered view
TakeRederived(d, keep) ==
    LET ids == [k \in 1..Len(keep) |-> d.rows[keep[k]][ColIdx(d, "Customer_ID")]]
        flags == Duplicated(ids)
        f == ColIdx(d, "Returning_Customer")
    IN  [columns |-> d.columns,
         index |-> [k \in 1..Len(keep) |-> d.index[keep[k]]],
         rows |-> [k \in 1..Len(keep) |->
                     [d.rows[keep[k]] EXCEPT ![f] = BoolV(flags[k])]]]

\* df[mask]: the kept rows with their index labels
Take(d, keep) ==
    [columns |-> d.columns,
     index |-> [k \in 1..Len(keep) |-> d.index[keep[k]]],
     rows |-> [k \in 1..Len(keep) |-> d.rows[keep[k]]]]

ApplyFilters(d, sf, cf, pf, lo, hi) == Take(d, Kept(d, sf, cf, pf, lo, hi))

---------------------------------------------------------------------------
(* filtered_df.to_csv(index=False)  (line 144) *)

FormatCell(v) ==
    CASE v.t = "nan" -> ""
      [] v.t = "str" -> v.s
      [] v.t = "int" -> IntText(v.n)
      [] v.t = "float" -> FloatText(v.n)
      [] v.t = "bool" -> (IF v.n = 1 THEN "True" ELSE "False")

ToCsv(d) ==
    [header |-> d.columns,
     lines |-> [i \in 1..Len(d.rows) |->
                  [c \in 1..Len(d.columns) |-> FormatCell(d.rows[i][c])]]]

---------------------------------------------------------------------------
(* KPI values (lines 151-153, 173) *)

\* Series.nunique(): NaN is not counted
Nunique(vals) == Cardinality({v \in SeqRange(vals) : ~IsNaN(v)})

RECURSIVE SumFrom(_, _)
SumFrom(vals, i) ==
    IF i > Len(vals) THEN 0
    ELSE (IF IsNaN(vals[i]) THEN 0 ELSE vals[i].n) + SumFrom(vals, i + 1)

\* Series.sum(): NaN is skipped, the sum of nothing is 0
Sum(vals) == SumFrom(vals, 1)

\* round(a / b) to the nearest integer, ties to even, as "{:.0f}" does
RoundDiv(a, b) ==
    LET q == a \div b
        r == a % b
    IN  IF 2 * r < b THEN q
        ELSE IF 2 * r > b THEN q + 1
        ELSE IF q % 2 = 0 THEN q ELSE q + 1

\* (returning_customers/total_customers)*100 with a numpy integer on the left:
\* 0/0 is nan (a RuntimeWarning, no exception), and "{nan:.0f}" is "nan"
ReturningRate(returning, customers) ==
    IF customers = 0
    THEN [nan |-> TRUE, pct |-> 0]
    ELSE [nan |-> FALSE, pct |-> RoundDiv(100 * returning, customers)]

---------------------------------------------------------------------------
(* filtered_df.groupby("Season")["Sales"].sum().reset_index()  (line 183) *)

\* the season names in the sorted order groupby emits its keys
SortedSeasons == <<"Summer", "Winter">>

\* the Sales sum of one group
SeasonSales(d, season) ==
    Sum(Col(Take(d, SelectSeq([i \in 1..Len(d.rows) |-> i],
                              LAMBDA i : At(d, i, "Season") = StrV(season))),
            "Sales"))

\* a slip: one entry for every season of the unfiltered table
GroupBySeasonAll(d) ==
    [k \in 1..Len(SortedSeasons) |->
        [Season |-> SortedSeasons[k], Sales |-> SeasonSales(d, SortedSeasons[k])]]

GroupBySeason(d) ==
    LET keys == SelectSeq(SortedSeasons,
                          LAMBDA s : StrV(s) \in Unique(d, "Season"))
    IN  [k \in 1..Len(keys) |->
            [Season |-> keys[k], Sales |-> SeasonSales(d, keys[k])]]

---------------------------------------------------------------------------
(* Source files *)

SourceHeader ==
    <<"Customer ID", "Age", "Gender", "Category", "Purchase Amount (USD)",
      "Season", "Payment Method">>

\* a header with padded names and a column the rename does not mention
WideHeader ==
    <<"Customer ID ", "Age", "Gender", "Category", "Purchase Amount (USD)",
      " Season", "Payment Method", "Location">>

\* rows that differ in season, category and amount; the one payment method is
\* deselected by an empty payment set
FacetRows ==
    {<<"A", "30", "Male", cat, amount, season, pay>> :
        cat \in {"Clothing", "Footwear"}, amount \in {"1", "2", "2.5"},
        season \in {"Winter", "Summer"}, pay \in {"Cash"}}

\* rows that differ in the customer id and in which cells are missing
TypedRows ==
    {<<id, "30", "Male", "Clothing", amount, "Winter", "Cash">> :
        id \in {"A", "7", ""}, amount \in {"1", ""}}

Tables(rows, max) == UNION {[1..n -> rows] : n \in 0..max}

FacetFiles ==
    {[header |-> SourceHeader, lines |-> l] : l \in Tables(FacetRows, MaxRows)}

TypedFiles ==
    {[header |-> SourceHeader, lines |-> l] : l \in Tables(TypedRows, MaxTypedRows)}
    \cup
    {[header |-> WideHeader,
      lines |-> [i \in 1..Len(l) |-> Append(l[i], "Online")]] :
        l \in Tables(TypedRows, MaxTypedRows)}

---------------------------------------------------------------------------
(* The script run *)

NoRate == [nan |-> FALSE, pct |-> 0]

\* the values of a run that has computed nothing yet
Fresh ==
    /\ df = NoDF
    /\ season_filter = {}
    /\ category_filter = {}
    /\ payment_filter = {}
    /\ min_sales = 0
    /\ max_sales = 0
    /\ filtered_df = NoDF
    /\ download = NoFile
    /\ total_customers = 0
    /\ total_sales = 0
    /\ returning_customers = 0
    /\ returning_rate = NoRate
    /\ monthly_sales = <<>>

InitWith(files) ==
    /\ csv_files \in {<<>>} \cup {<<f>> : f \in files}
    /\ cache = NoDF
    /\ pc = "load"
    /\ Fresh

Init == InitWith(FacetFiles)

InitTyped == InitWith(TypedFiles)

\* a slip: an empty table instead of the IndexError
LoadStepLenient ==
    /\ pc = "load"
    /\ df' = (IF cache # NoDF THEN cache
              ELSE IF LoadFails(csv_files)
                   THEN [NoDF EXCEPT !.columns = SourceHeader]
                   ELSE LoadData(csv_files))
    /\ cache' = df'
    /\ pc' = "rename"
    /\ UNCHANGED <<csv_files, season_filter, category_filter, payment_filter,
                   min_sales, max_sales, filtered_df, download, total_customers,
                   total_sales, returning_customers, returning_rate, monthly_sales>>

\* df = load_data()  (lines 76-83): st.cache_data returns the stored table
\* when there is one; csv_files[0] raises IndexError when no file is listed
LoadStep ==
    /\ pc = "load"
    /\ IF cache # NoDF
       THEN df' = cache /\ cache' = cache /\ pc' = "rename"
       ELSE IF LoadFails(csv_files)
            THEN df' = df /\ cache' = cache /\ pc' = "fault"
            ELSE df' = LoadData(csv_files) /\ cache' = df' /\ pc' = "rename"
    /\ UNCHANGED <<csv_files, season_filter, category_filter, payment_filter,
                   min_sales, max_sales, filtered_df, download, total_customers,
                   total_sales, returning_customers, returning_rate, monthly_sales>>

\* df.rename(columns={...}, inplace=True)  (lines 86-91)
RenameStep ==
    /\ pc = "rename"
    /\ df' = Rename(df)
    /\ pc' = "derive"
    /\ UNCHANGED <<csv_files, cache, season_filter, category_filter,
                   payment_filter, min_sales, max_sales, filtered_df, download,
                   total_customers, total_sales, returning_customers,
                   returning_rate, monthly_sales>>

\* line 93
DeriveStep ==
    /\ pc = "derive"
    /\ df' = Derive(df)
    /\ pc' = "sidebar"
    /\ UNCHANGED <<csv_files, cache, season_filter, category_filter,
                   payment_filter, min_sales, max_sales, filtered_df, download,
                   total_customers, total_sales, returning_customers,
                   returning_rate, monthly_sales>>

\* what the widgets return when the user has touched none of them
DefaultSelection(d) ==
    [season |-> Unique(d, "Season"),
     category |-> Unique(d, "Product_Category"),
     payment |-> Unique(d, "Payment_Method"),
     lo |-> SliderMin(d),
     hi |-> SliderMax(d)]

\* everything the widgets can return for table d: subsets of the options and
\* a range inside the slider's ends
Selections(d) ==
    {sel \in [season : SUBSET Unique(d, "Season"),
              category : SUBSET Unique(d, "Product_Category"),
              payment : SUBSET Unique(d, "Payment_Method"),
              lo : SliderMin(d)..SliderMax(d),
              hi : SliderMin(d)..SliderMax(d)] : sel.lo <= sel.hi}

\* the three multiselects and the slider (lines 101-128): the widgets hold the
\* user's selection, the defaults when there is none
SidebarStep ==
    /\ pc = "sidebar"
    /\ IF SliderFails(df)
       THEN /\ pc' = "fault"
            /\ UNCHANGED <<season_filter, category_filter, payment_filter,
                           min_sales, max_sales>>
       ELSE /\ \E sel \in Selections(df) :
                /\ season_filter' = sel.season
                /\ category_filter' = sel.category
                /\ payment_filter' = sel.payment
                /\ min_sales' = sel.lo
                /\ max_sales' = sel.hi
            /\ pc' = "filter"
    /\ UNCHANGED <<csv_files, cache, df, filtered_df, download, total_customers,
                   total_sales, returning_customers, returning_rate, monthly_sales>>

\* lines 131-137
FilterStep ==
    /\ pc = "filter"
    /\ filtered_df' = ApplyFilters(df, season_filter, category_filter,
                                   payment_filter, min_sales, max_sales)
    /\ pc' = "download"
    /\ UNCHANGED <<csv_files, cache, df, season_filter, category_filter,
                   payment_filter, min_sales, max_sales, download,
                   total_customers, total_sales, returning_customers,
                   returning_rate, monthly_sales>>

\* lines 142-146
DownloadStep ==
    /\ pc = "download"
    /\ download' = ToCsv(filtered_df)
    /\ pc' = "kpi"
    /\ UNCHANGED <<csv_files, cache, df, season_filter, category_filter,
                   payment_filter, min_sales, max_sales, filtered_df,
                   total_customers, total_sales, returning_customers,
                   returning_rate, monthly_sales>>

\* lines 151-174
KpiStep ==
    /\ pc = "kpi"
    /\ total_customers' = Nunique(Col(filtered_df, "Customer_ID"))
    /\ total_sales' = Sum(Col(filtered_df, "Sales"))
    /\ returning_customers' = Sum(Col(filtered_df, "Returning_Customer"))
    /\ returning_rate' = ReturningRate(returning_customers', total_customers')
    /\ pc' = "charts"
    /\ UNCHANGED <<csv_files, cache, df, season_filter, category_filter,
                   payment_filter, min_sales, max_sales, filtered_df, download,
                   monthly_sales>>

\* line 183
ChartsStep ==
    /\ pc = "charts"
    /\ monthly_sales' = GroupBySeason(filtered_df)
    /\ pc' = "done"
    /\ UNCHANGED <<csv_files, cache, df, season_filter, category_filter,
                   payment_filter, min_sales, max_sales, filtered_df, download,
                   total_customers, total_sales, returning_customers,
                   returning_rate>>

\* Streamlit runs the script again from the top after a widget change or a
\* manual rerun: every script variable starts over, the cache stays
Rerun ==
    /\ pc \in {"done", "fault"}
    /\ pc' = "load"
    /\ df' = NoDF
    /\ season_filter' = {}
    /\ category_filter' = {}
    /\ payment_filter' = {}
    /\ min_sales' = 0
    /\ max_sales' = 0
    /\ filtered_df' = NoDF
    /\ download' = NoFile
    /\ total_customers' = 0
    /\ total_sales' = 0
    /\ returning_customers' = 0
    /\ returning_rate' = NoRate
    /\ monthly_sales' = <<>>
    /\ UNCHANGED <<csv_files, cache>>

Next ==
    \/ LoadStep
    \/ RenameStep
    \/ DeriveStep
    \/ SidebarStep
    \/ FilterStep
    \/ DownloadStep
    \/ KpiStep
    \/ ChartsStep
    \/ Rerun

Spec == Init /\ [][Next]_vars

SpecTyped == InitTyped /\ [][Next]_vars

---------------------------------------------------------------------------
(* Properties *)

AfterDerive == {"sidebar", "filter", "download", "kpi", "charts", "done"}

AfterFilter == {"download", "kpi", "charts", "done"}

AfterDownload == {"kpi", "charts", "done"}

AfterKpi == {"charts", "done"}

Selection ==
    [season |-> season_filter, category |-> category_filter,
     payment |-> payment_filter, lo |-> min_sales, hi |-> max_sales]

\* the index labels of the rows of d
Labels(d) == SeqRange(d.index)

\* whether row i of df is in the filtered table
InFiltered(i) == df.index[i] \in Labels(filtered_df)

\* row i of df is a number within [lo, hi] dollars, both ends included
InRange(i, lo, hi) ==
    /\ ~IsNaN(At(df, i, "Sales"))
    /\ lo * 2 <= At(df, i, "Sales").n
    /\ At(df, i, "Sales").n <= hi * 2

\* C1: a record is in the filtered table if and only if its season, its
\* category and its payment method are in the selected sets and its sales
\* amount lies in [min, max], both ends included.
C1_FilterIsConjunction ==
    pc \in AfterFilter =>
        \A i \in 1..Len(df.rows) :
            InFiltered(i) <=>
                /\ At(df, i, "Season") \in season_filter
                /\ At(df, i, "Product_Category") \in category_filter
                /\ At(df, i, "Payment_Method") \in payment_filter
                /\ InRange(i, min_sales, max_sales)

\* a filtered table that keeps a row whose amount equals both ends of the
\* range and drops another row
C1_Witness ==
    /\ pc = "download"
    /\ \E i, j \in 1..Len(df.rows) :
          /\ InFiltered(i)
          /\ At(df, i, "Sales").n = min_sales * 2
          /\ At(df, i, "Sales").n = max_sales * 2
          /\ ~InFiltered(j)

\* C2: when no record matches, the counts and the total are 0 and the
\* returning-customer rate is reported as 0 or an explicit sentinel.  The
\* script has no sentinel: the rate is a number or the NaN of an unguarded
\* division.
C2_EmptyResultRateGuarded ==
    (pc \in AfterKpi /\ Len(filtered_df.rows) = 0) =>
        /\ total_customers = 0
        /\ total_sales = 0
        /\ returning_customers = 0
        /\ ~returning_rate.nan
        /\ returning_rate.pct = 0

\* every sales amount of df is a non-negative number
SalesAreAmounts ==
    \A i \in 1..Len(df.rows) :
        ~IsNaN(At(df, i, "Sales")) /\ At(df, i, "Sales").n >= 0

\* C3: with the default selection the filtered table equals the table, for
\* every table whose sales amounts are non-negative real numbers.
C3_DefaultKeepsEverything ==
    (pc \in AfterFilter /\ Selection = DefaultSelection(df) /\ SalesAreAmounts) =>
        filtered_df = df

CanonicalFields ==
    {"Customer_ID", "Product_Category", "Payment_Method", "Sales", "Gender",
     "Age", "Season"}

\* C4: after loading and normalization no record has a missing value in a
\* canonical field.
C4_NoMissingValues ==
    pc \in AfterDerive =>
        \A i \in 1..Len(df.rows) : \A name \in CanonicalFields :
            ~IsNaN(At(df, i, name))

\* C5: the returning-customer flag of the record at position i is true if and
\* only if a record at an earlier position has the same customer id.
C5_ReturningIffSeenEarlier ==
    pc \in AfterDerive =>
        \A i \in 1..Len(df.rows) :
            At(df, i, "Returning_Customer") =
                BoolV(\E j \in 1..(i - 1) :
                         At(df, j, "Customer_ID") = At(df, i, "Customer_ID"))

\* ids A, B, A: the flags are false, false, true
C5_Witness ==
    /\ pc = "sidebar"
    /\ Len(df.rows) = 3
    /\ At(df, 1, "Customer_ID") = At(df, 3, "Customer_ID")
    /\ At(df, 1, "Customer_ID") # At(df, 2, "Customer_ID")
    /\ At(df, 1, "Returning_Customer") = BoolV(FALSE)
    /\ At(df, 2, "Returning_Customer") = BoolV(FALSE)
    /\ At(df, 3, "Returning_Customer") = BoolV(TRUE)

\* C6: the export has the canonical field names as its header and the
\* filtered records in order, and parsing it again gives the same fields,
\* records, order and values.
C6_ExportRoundTrips ==
    pc \in AfterDownload =>
        /\ SeqRange(download.header) = CanonicalFields \cup {"Returning_Customer"}
        /\ Len(download.lines) = Len(filtered_df.rows)
        /\ ReadCsv(download).columns = filtered_df.columns
        /\ ReadCsv(download).rows = filtered_df.rows

\* sel2 allows, facet by facet, at least what sel1 allows
Wider(sel1, sel2) ==
    /\ sel1.season \subseteq sel2.season
    /\ sel1.category \subseteq sel2.category
    /\ sel1.payment \subseteq sel2.payment
    /\ sel2.lo <= sel1.lo
    /\ sel1.hi <= sel2.hi

\* C7: every record passing a selection passes every wider selection, so the
\* filtered record count never decreases.
C7_FilterMonotone ==
    pc = "download" =>
        \A sel2 \in {s \in Selections(df) : Wider(Selection, s)} :
            LET wider == ApplyFilters(df, sel2.season, sel2.category,
                                      sel2.payment, sel2.lo, sel2.hi)
            IN  /\ Labels(filtered_df) \subseteq Labels(wider)
                /\ Len(filtered_df.rows) <= Len(wider.rows)

\* a selection that drops a row and has a strictly wider range to move to
C7_Witness ==
    /\ pc = "download"
    /\ Len(filtered_df.rows) >= 1
    /\ Len(filtered_df.rows) < Len(df.rows)
    /\ \E s \in Selections(df) :
          /\ Wider(Selection, s)
          /\ s.hi > max_sales
          /\ s.season # season_filter

\* the rows of d whose season is s
SeasonRows(d, s) == {i \in 1..Len(d.rows) : At(d, i, "Season") = StrV(s)}

RECURSIVE Amount(_, _)
\* the sales of the rows I of d, added up
Amount(d, I) ==
    IF I = {} THEN 0
    ELSE LET i == CHOOSE x \in I : TRUE
         IN  At(d, i, "Sales").n + Amount(d, I \ {i})

RECURSIVE EntriesTotal(_, _)
EntriesTotal(entries, k) ==
    IF k > Len(entries) THEN 0 ELSE entries[k].Sales + EntriesTotal(entries, k + 1)

\* C8: the season-wise summary has exactly one entry for each season of the
\* filtered table and none for another, each the sum of that season's sales,
\* and the entries add up to the total-sales KPI.
C8_SeasonSummary ==
    pc = "done" =>
        /\ \A k, m \in 1..Len(monthly_sales) :
              monthly_sales[k].Season = monthly_sales[m].Season => k = m
        /\ {StrV(monthly_sales[k].Season) : k \in 1..Len(monthly_sales)}
              = Unique(filtered_df, "Season")
        /\ \A k \in 1..Len(monthly_sales) :
              monthly_sales[k].Sales =
                  Amount(filtered_df, SeasonRows(filtered_df, monthly_sales[k].Season))
        /\ EntriesTotal(monthly_sales, 1) = total_sales
        /\ total_sales = Amount(filtered_df, 1..Len(filtered_df.rows))

\* one season whose entry adds up two records, 1 and 2 dollars
C8_Witness ==
    /\ pc = "done"
    /\ Len(filtered_df.rows) = 2
    /\ Len(monthly_sales) = 1
    /\ monthly_sales[1].Sales = 6
    /\ total_sales = 6

\* C9: with no source file the run ends in the fault at the load step and
\* nothing of the pipeline happens.
C9_NoSourceNoPipeline ==
    csv_files = <<>> => (pc \in {"load", "fault"} /\ cache = NoDF /\ Fresh)

C9_Witness == csv_files = <<>> /\ pc = "fault"

\* f is d with some rows left out: same fields, rows in d's order, every kept
\* row exactly as it is in d
IsSubTable(f, d) ==
    /\ f.columns = d.columns
    /\ \A k \in 1..(Len(f.index) - 1) : f.index[k] < f.index[k + 1]
    /\ \A k \in 1..Len(f.rows) :
          \E i \in 1..Len(d.rows) : d.index[i] = f.index[k] /\ d.rows[i] = f.rows[k]

\* C10: applying the filter leaves the table unchanged and the filtered table
\* is an order-preserving subsequence of it, every kept record with the field
\* values, the returning-customer flag included, it has in the table.
C10_FilterIsView ==
    [][FilterStep => (df' = df /\ cache' = cache /\ IsSubTable(filtered_df', df))]_vars

\* a kept record flagged returning whose earlier occurrence is filtered out
C10_Witness ==
    /\ pc = "download"
    /\ \E i \in 1..Len(df.rows) :
          /\ InFiltered(i)
          /\ At(df, i, "Returning_Customer") = BoolV(TRUE)
          /\ \A j \in 1..(i - 1) : ~InFiltered(j)

=============================================================================
